---- MODULE Spec2Model ----
(***************************************************************************)
(* Model of backend/agent.py: the import-time environment check, the job   *)
(* entrypoint (connect, wait_for_participant, run_multimodal_agent) and    *)
(* run_multimodal_agent (model construction with retry, chat context,      *)
(* MultimodalAgent construction, start, generate_reply).                   *)
(*                                                                         *)
(* The external collaborators (LiveKit room, OpenAI realtime model, agent  *)
(* runtime) are the environment: whether a call returns or raises is an    *)
(* input.  The outcome of the n-th RealtimeModel constructor call is fixed *)
(* by ctorPlan, chosen in Init; the other outcomes are chosen when the     *)
(* call resolves.                                                          *)
(*                                                                         *)
(* Spec is one job.  CancelSpec adds the framework cancelling the job in   *)
(* an await, JobsSpec several jobs as coroutines of one event loop, and    *)
(* FairSpec the assumption that every step that can be taken is taken.     *)
(***************************************************************************)
EXTENDS Integers, Sequences, FiniteSets, TLC

VARIABLES
    env,          \* os.environ restricted to the required names
    envIdx,       \* position of the import-time loop over required_env_vars
    ctorPlan,     \* ctorPlan[n] = TRUE iff the n-th RealtimeModel(...) call raises
    pc,           \* position of the process / of the job's coroutine
    attempt,      \* loop variable of "for attempt in range(3)"
    participant,  \* local of entrypoint, <<>> while unbound
    model,        \* local of run_multimodal_agent, <<>> while unbound
    chat_ctx,     \* local of run_multimodal_agent, <<>> while unbound
    agent,        \* local of run_multimodal_agent, <<>> while unbound
    exc,          \* the exception in flight, or the one that left the program
    calls,        \* every call the job made to a collaborator, in order, with its outcome
    logs,         \* every record the job handed to logger, in order
    configs,      \* the keyword arguments of each RealtimeModel(...) call, in order
    current,      \* the job whose coroutine the event loop is running
    parked        \* the frames of the jobs whose coroutines are not running

vars == <<env, envIdx, ctorPlan, pc, attempt, participant, model, chat_ctx,
          agent, exc, calls, logs, configs, current, parked>>

-----------------------------------------------------------------------------
(* Bounds of the model *)

\* number of constructor calls whose outcome the environment fixes in advance
PlanLen == 4

\* number of jobs the worker runs side by side in JobsSpec
NumJobs == 2

-----------------------------------------------------------------------------
(* Program constants *)

\* the list written in another order
required_env_vars_reordered ==
    <<"LIVEKIT_API_SECRET", "LIVEKIT_API_KEY", "OPENAI_API_KEY">>

\* required_env_vars, in the order of the list
required_env_vars == <<"OPENAI_API_KEY", "LIVEKIT_API_KEY", "LIVEKIT_API_SECRET">>

RequiredNames == {required_env_vars[i] : i \in 1..Len(required_env_vars)}

\* os.getenv(var) is None
NoValue == "<None>"

\* what a required name can map to: unset, the empty string, a real value
EnvValues == {NoValue, "", "secret"}

\* range(3)
MaxAttempts == 3

\* "if attempt == 2"
LastAttempt == 2

\* asyncio.sleep(1)
BackoffSeconds == 1

\* ctx.room.name of job j: every job is handed its own JobContext
RoomOf(j) == <<"room", j>>

\* ctx.room.name of the running job
RoomName == RoomOf(current)

\* identities wait_for_participant can return
Identities == {"user-42", "user-7"}

\* the seed message appended with role="user"
SeedMessageAsUser ==
    [role |-> "user",
     text |-> "Contexto del Usuario: estas hablando con cliente potencial"]

\* the seed message appended to the chat context
SeedMessage == [role |-> "assistant",
                text |-> "Contexto del Usuario: estas hablando con cliente potencial"]

\* a local variable that has not been assigned
Unbound == <<>>
Bound(v) == <<v>>
ValueOf(l) == l[1]

NoExc == [type |-> "none", origin |-> "none", seq |-> 0]

\* the keyword arguments of openai.realtime.RealtimeModel(...): all literals
ModelConfig ==
    [instructions |-> "Eres Govi, la asistente de IA conversacional del GovLab ...",
     voice |-> "sage",
     temperature |-> "0.6",
     model |-> "gpt-4o-realtime-preview",
     turn_detection |-> [threshold |-> "0.6", prefix_padding_ms |-> 200,
                         silence_duration_ms |-> 500, create_response |-> TRUE]]

\* the frame that stands in parked for the job that is running
IdleFrame == [pc |-> "running"]

-----------------------------------------------------------------------------
(* Helpers *)

\* logger.info / logger.warning / logger.error
Log(level, msg) == [level |-> level, msg |-> msg]

\* one call to a collaborator; ret is what it returned, where the job keeps it
Call(op, arg, status) == [op |-> op, arg |-> arg, status |-> status, ret |-> <<>>]

\* the indices of the calls of one operation
CallsOf(op) == {i \in 1..Len(calls) : calls[i].op = op}

\* the awaited call at the end of the trace resolves
Resolve(status) == [calls EXCEPT ![Len(calls)].status = status]

\* the awaited call at the end of the trace returns v
Return(v) == [calls EXCEPT ![Len(calls)].status = "ok", ![Len(calls)].ret = <<v>>]

\* a check that only catches an unset variable ("os.getenv(var) is None")
NotSetNoneOnly(var) == env[var] = NoValue

\* "not os.getenv(var)": unset or empty
NotSet(var) == env[var] = NoValue \/ env[var] = ""

\* does the n-th constructor call raise
CtorRaises(n) == IF n \in 1..PlanLen THEN ctorPlan[n] ELSE TRUE

\* a configuration whose temperature is raised on every retry
ConfigDrifts(a) ==
    [ModelConfig EXCEPT !.temperature = IF a = 0 THEN "0.6" ELSE "0.7"]

\* the configuration attempt a passes to the constructor: the call expression
\* builds it from literals each time it is evaluated
ConfigFor(a) == ModelConfig

\* "if attempt == 1": gives up one attempt early
IsLastAttemptEarly(a) == a = LastAttempt - 1

\* "if attempt == 3": never true inside range(3)
IsLastAttemptLate(a) == a = MaxAttempts

\* "if attempt == 0": gives up on the first failure
IsLastAttemptFirst(a) == a = 0

\* "if attempt == 2"
IsLastAttempt(a) == a = LastAttempt

\* "for attempt in range(2)"
HasNextAttemptShort(a) == a + 1 < MaxAttempts - 1

\* asyncio.sleep(2 ** attempt): a backoff that grows
BackoffGrows(a) == BackoffSeconds + a

\* the argument of asyncio.sleep after attempt a failed: the literal 1
BackoffFor(a) == BackoffSeconds

\* "raise ModelInitializationError(...) from e": the error is replaced
RaiseWrapped(e) == [e EXCEPT !.type = "ModelInitializationError"]

\* the bare "raise" in the handler of the retry loop: the caught error itself
Reraise(e) == e

\* the object the n-th RealtimeModel(...) call of the running job returns: a fresh
\* object, told apart from every other by the job and the call that made it
Handle(n) == (current - 1) * MaxAttempts + n

\* the job that made a handle
MakerOf(h) == ((h - 1) \div MaxAttempts) + 1

\* the loop header "for attempt in range(3)": is there a next item after a
HasNextAttempt(a) == a + 1 < MaxAttempts

\* a handler that goes on to wait for the participant instead of re-raising
EntrypointHandlerResumes == "ep_wait"

\* where an exception raised inside entrypoint's try block lands: its except clause
EntrypointHandler == "ep_except"

\* a handler that goes back to the retry loop instead of re-raising
RunAgentHandlerRetriesModel == "rma_construct"

\* a handler that starts the agent again instead of re-raising
RunAgentHandlerRetriesStart == "rma_start"

\* run_multimodal_agent without its own try/except: the error goes straight to
\* entrypoint's handler
RunAgentHandlerMissing == "ep_except"

\* where an exception raised inside run_multimodal_agent's try block lands: its
\* except clause
RunAgentHandler == "rma_except"

\* "ctx.connect(...)" without await: the coroutine goes on at once
ConnectNotAwaited == "ep_wait"

\* the statement that follows "await ctx.connect(...)" being issued: the coroutine
\* is suspended until connect resolves
AfterConnectCall == "await_connect"

\* agent.generate_reply() left out
AfterStartSkipsReply == "ep_return"

\* the statement that follows a successful agent.start
AfterStart == "rma_reply"

\* "raise" left out of entrypoint's handler: entrypoint returns normally
EntrypointSwallows == "done"

\* the bare "raise" that ends entrypoint's handler: the error leaves entrypoint
EntrypointReraise == "failed"

-----------------------------------------------------------------------------
Init ==
    /\ env \in [RequiredNames -> EnvValues]
    /\ envIdx = 1
    /\ ctorPlan \in [1..PlanLen -> BOOLEAN]
    /\ pc = "env_check"
    /\ attempt = 0
    /\ participant = Unbound
    /\ model = Unbound
    /\ chat_ctx = Unbound
    /\ agent = Unbound
    /\ exc = NoExc
    /\ calls = <<>>
    /\ logs = <<>>
    /\ configs = <<>>
    /\ current = 1
    /\ parked = <<IdleFrame>>

-----------------------------------------------------------------------------
(* Module level *)

\* one iteration of "for var in required_env_vars: if not os.getenv(var): raise"
CheckEnvVar ==
    /\ pc = "env_check"
    /\ LET var == required_env_vars[envIdx] IN
       IF NotSet(var)
       THEN /\ exc' = [type |-> "EnvironmentError", origin |-> var, seq |-> 0]
            /\ pc' = "import_failed"
            /\ UNCHANGED envIdx
       ELSE /\ envIdx' = envIdx + 1
            /\ pc' = IF envIdx = Len(required_env_vars) THEN "main" ELSE "env_check"
            /\ UNCHANGED exc
    /\ UNCHANGED <<current, parked>>
    /\ UNCHANGED <<env, configs, ctorPlan, attempt, participant, model, chat_ctx, agent,
                   calls, logs>>

\* cli.run_app(WorkerOptions(entrypoint_fnc=entrypoint)): the worker is handed a job
RunApp ==
    /\ pc = "main"
    /\ pc' = "ep_connect"
    /\ UNCHANGED <<current, parked>>
    /\ UNCHANGED <<env, configs, envIdx, ctorPlan, attempt, participant, model, chat_ctx,
                   agent, exc, calls, logs>>

-----------------------------------------------------------------------------
(* entrypoint *)

\* logger.info("Connecting to room ..."); await ctx.connect(...) is issued
ConnectCall ==
    /\ pc = "ep_connect"
    /\ logs' = Append(logs, Log("INFO", "Connecting to room"))
    /\ calls' = Append(calls, Call("connect", <<"AUDIO_ONLY">>, "pending"))
    /\ pc' = AfterConnectCall
    /\ UNCHANGED <<current, parked>>
    /\ UNCHANGED <<env, configs, envIdx, ctorPlan, attempt, participant, model, chat_ctx,
                   agent, exc>>

\* ctx.connect returns or raises
ConnectResolve ==
    /\ pc = "await_connect"
    /\ \E ok \in BOOLEAN :
         IF ok
         THEN /\ calls' = Resolve("ok")
              /\ pc' = "ep_wait"
              /\ UNCHANGED exc
         ELSE /\ calls' = Resolve("raised")
              /\ exc' = [type |-> "Exception", origin |-> "connect", seq |-> Len(calls)]
              /\ pc' = EntrypointHandler
    /\ UNCHANGED <<current, parked>>
    /\ UNCHANGED <<env, configs, envIdx, ctorPlan, attempt, participant, model, chat_ctx,
                   agent, logs>>

\* logger.info("Waiting for participant..."); await ctx.wait_for_participant() is issued
WaitCall ==
    /\ pc = "ep_wait"
    /\ logs' = Append(logs, Log("INFO", "Waiting for participant..."))
    /\ calls' = Append(calls, Call("wait_for_participant", <<>>, "pending"))
    /\ pc' = "await_participant"
    /\ UNCHANGED <<current, parked>>
    /\ UNCHANGED <<env, configs, envIdx, ctorPlan, attempt, participant, model, chat_ctx,
                   agent, exc>>

\* ctx.wait_for_participant returns a participant or raises
WaitResolve ==
    /\ pc = "await_participant"
    /\ \/ \E id \in Identities :
            /\ calls' = Return(id)
            /\ participant' = Bound(id)
            /\ pc' = "ep_run"
            /\ UNCHANGED exc
       \/ /\ calls' = Resolve("raised")
          /\ exc' = [type |-> "Exception", origin |-> "wait_for_participant",
                     seq |-> Len(calls)]
          /\ pc' = EntrypointHandler
          /\ UNCHANGED participant
    /\ UNCHANGED <<current, parked>>
    /\ UNCHANGED <<env, configs, envIdx, ctorPlan, attempt, model, chat_ctx, agent, logs>>

\* logger.info("Participant ... joined"); run_multimodal_agent is entered:
\* logger.info("Initializing multimodal agent"); the for loop takes its first item
RunAgentCall ==
    /\ pc = "ep_run"
    /\ logs' = logs \o <<Log("INFO", "Participant joined, starting agent..."),
                         Log("INFO", "Initializing multimodal agent")>>
    /\ attempt' = 0
    /\ pc' = IF 0 < MaxAttempts THEN "rma_construct" ELSE "rma_chat_ctx"
    /\ UNCHANGED <<current, parked>>
    /\ UNCHANGED <<env, configs, envIdx, ctorPlan, participant, model, chat_ctx, agent,
                   exc, calls>>

\* logger.info("Agent started successfully"); entrypoint returns
EntrypointReturn ==
    /\ pc = "ep_return"
    /\ logs' = Append(logs, Log("INFO", "Agent started successfully"))
    /\ pc' = "done"
    /\ UNCHANGED <<current, parked>>
    /\ UNCHANGED <<env, configs, envIdx, ctorPlan, attempt, participant, model, chat_ctx,
                   agent, exc, calls>>

\* except Exception as e: logger.error("Error in entrypoint"); raise
EntrypointExcept ==
    /\ pc = "ep_except"
    /\ logs' = Append(logs, Log("ERROR", "Error in entrypoint"))
    /\ pc' = EntrypointReraise
    /\ UNCHANGED <<current, parked>>
    /\ UNCHANGED <<env, configs, envIdx, ctorPlan, attempt, participant, model, chat_ctx,
                   agent, exc, calls>>

-----------------------------------------------------------------------------
(* run_multimodal_agent *)

\* the number of RealtimeModel(...) calls made so far
CtorCalls == Cardinality(CallsOf("RealtimeModel"))

\* one pass of the body of the for loop: model = RealtimeModel(...) and, when it
\* raises, the handler "if attempt == 2: raise / logger.warning / asyncio.sleep(1)"
ConstructModel ==
    /\ pc = "rma_construct"
    /\ LET n == CtorCalls + 1 IN
       IF ~CtorRaises(n)
       THEN /\ calls' = Append(calls, Call("RealtimeModel", <<attempt>>, "ok"))
            /\ model' = Bound(Handle(n))
            /\ logs' = Append(logs, Log("INFO", "Model initialized successfully"))
            /\ pc' = "rma_chat_ctx"
            /\ UNCHANGED exc
       ELSE IF IsLastAttempt(attempt)
       THEN /\ calls' = Append(calls, Call("RealtimeModel", <<attempt>>, "raised"))
            /\ exc' = Reraise([type |-> "Exception", origin |-> "RealtimeModel",
                               seq |-> Len(calls) + 1])
            /\ pc' = RunAgentHandler
            /\ UNCHANGED <<model, logs>>
       ELSE /\ calls' = calls \o <<Call("RealtimeModel", <<attempt>>, "raised"),
                                   Call("sleep", <<BackoffFor(attempt)>>, "pending")>>
            /\ logs' = Append(logs, Log("WARNING", "Model initialization attempt failed"))
            /\ pc' = "await_sleep"
            /\ UNCHANGED <<model, exc>>
    /\ UNCHANGED <<current, parked>>
    /\ configs' = Append(configs, ConfigFor(attempt))
    /\ UNCHANGED <<env, envIdx, ctorPlan, attempt, participant, chat_ctx, agent>>

\* asyncio.sleep(1) returns; the for loop takes its next item, or is exhausted
SleepResolve ==
    /\ pc = "await_sleep"
    /\ calls' = Resolve("ok")
    /\ IF HasNextAttempt(attempt)
       THEN /\ attempt' = attempt + 1
            /\ pc' = "rma_construct"
       ELSE /\ pc' = "rma_chat_ctx"
            /\ UNCHANGED attempt
    /\ UNCHANGED <<current, parked>>
    /\ UNCHANGED <<env, configs, envIdx, ctorPlan, participant, model, chat_ctx, agent,
                   exc, logs>>

\* chat_ctx = llm.ChatContext(); chat_ctx.append(text=..., role="assistant")
BuildChatContext ==
    /\ pc = "rma_chat_ctx"
    /\ chat_ctx' = Bound(<<SeedMessage>>)
    /\ calls' = calls \o <<Call("ChatContext", <<>>, "ok"),
                           Call("append", <<SeedMessage>>, "ok")>>
    /\ pc' = "rma_agent"
    /\ UNCHANGED <<current, parked>>
    /\ UNCHANGED <<env, configs, envIdx, ctorPlan, attempt, participant, model, agent,
                   exc, logs>>

\* agent = MultimodalAgent(model=model, chat_ctx=chat_ctx); reading an unassigned
\* local raises UnboundLocalError
ConstructAgent ==
    /\ pc = "rma_agent"
    /\ IF model = Unbound
       THEN /\ exc' = [type |-> "UnboundLocalError", origin |-> "model",
                       seq |-> 0]
            /\ pc' = RunAgentHandler
            /\ UNCHANGED <<agent, calls>>
       ELSE /\ agent' = Bound([model |-> ValueOf(model),
                               chat_ctx |-> ValueOf(chat_ctx)])
            /\ calls' = Append(calls, Call("MultimodalAgent", <<ValueOf(model)>>, "ok"))
            /\ pc' = "rma_start"
            /\ UNCHANGED exc
    /\ UNCHANGED <<current, parked>>
    /\ UNCHANGED <<env, configs, envIdx, ctorPlan, attempt, participant, model, chat_ctx,
                   logs>>

\* agent.start(ctx.room, participant) returns or raises
StartAgent ==
    /\ pc = "rma_start"
    /\ \E ok \in BOOLEAN :
         IF ok
         THEN /\ calls' = Append(calls,
                     Call("start", <<RoomName, ValueOf(participant)>>, "ok"))
              /\ pc' = AfterStart
              /\ UNCHANGED exc
         ELSE /\ calls' = Append(calls,
                     Call("start", <<RoomName, ValueOf(participant)>>, "raised"))
              /\ exc' = [type |-> "Exception", origin |-> "start",
                         seq |-> Len(calls) + 1]
              /\ pc' = RunAgentHandler
    /\ UNCHANGED <<current, parked>>
    /\ UNCHANGED <<env, configs, envIdx, ctorPlan, attempt, participant, model, chat_ctx,
                   agent, logs>>

\* agent.generate_reply() returns or raises; on return
\* logger.info("Multimodal agent initialized and started successfully") and
\* run_multimodal_agent returns
GenerateReply ==
    /\ pc = "rma_reply"
    /\ \E ok \in BOOLEAN :
         IF ok
         THEN /\ calls' = Append(calls, Call("generate_reply", <<>>, "ok"))
              /\ logs' = Append(logs,
                     Log("INFO", "Multimodal agent initialized and started successfully"))
              /\ pc' = "ep_return"
              /\ UNCHANGED exc
         ELSE /\ calls' = Append(calls, Call("generate_reply", <<>>, "raised"))
              /\ exc' = [type |-> "Exception", origin |-> "generate_reply",
                         seq |-> Len(calls) + 1]
              /\ pc' = RunAgentHandler
              /\ UNCHANGED logs
    /\ UNCHANGED <<current, parked>>
    /\ UNCHANGED <<env, configs, envIdx, ctorPlan, attempt, participant, model, chat_ctx,
                   agent>>

\* except Exception as e: logger.error("Failed to initialize MultimodalAgent"); raise
RunAgentExcept ==
    /\ pc = "rma_except"
    /\ logs' = Append(logs, Log("ERROR", "Failed to initialize MultimodalAgent"))
    /\ pc' = EntrypointHandler
    /\ UNCHANGED <<current, parked>>
    /\ UNCHANGED <<env, configs, envIdx, ctorPlan, attempt, participant, model, chat_ctx,
                   agent, exc, calls>>

-----------------------------------------------------------------------------
Next ==
    \/ CheckEnvVar
    \/ RunApp
    \/ ConnectCall
    \/ ConnectResolve
    \/ WaitCall
    \/ WaitResolve
    \/ RunAgentCall
    \/ ConstructModel
    \/ SleepResolve
    \/ BuildChatContext
    \/ ConstructAgent
    \/ StartAgent
    \/ GenerateReply
    \/ RunAgentExcept
    \/ EntrypointReturn
    \/ EntrypointExcept

Spec == Init /\ [][Next]_vars

-----------------------------------------------------------------------------
(* Cancellation of the job by the framework *)

\* the awaits of the job: where its coroutine is suspended
SuspendedPcs == {"await_connect", "await_participant", "await_sleep"}

\* a bare "except:" around the backoff that takes the cancellation for one more
\* failed attempt
CancelCaughtByRetry(p) == IF p = "await_sleep" THEN "rma_construct" ELSE "cancelled"

\* where asyncio.CancelledError lands when it is thrown into the await at p: it is
\* a BaseException, so neither "except Exception" clause catches it and it leaves
\* entrypoint without a log record
CancelLands(p) == "cancelled"

\* the framework cancels the job's task while it is suspended
Cancel ==
    /\ pc \in SuspendedPcs
    /\ calls' = Resolve("cancelled")
    /\ exc' = [type |-> "CancelledError", origin |-> calls[Len(calls)].op,
               seq |-> Len(calls)]
    /\ pc' = CancelLands(pc)
    /\ UNCHANGED <<current, parked>>
    /\ UNCHANGED <<env, configs, envIdx, ctorPlan, attempt, participant, model,
                   chat_ctx, agent, logs>>

NextCancel == Next \/ Cancel

CancelSpec == Init /\ [][NextCancel]_vars

-----------------------------------------------------------------------------
(* Several jobs in one worker: each job is a coroutine of the same event loop, *)
(* which runs one of them at a time and changes over only where the running   *)
(* one is suspended in an await or has ended.                                 *)

Jobs == 1..NumJobs

\* the coroutine gave up control
YieldedPcs == SuspendedPcs \cup {"done", "failed", "cancelled"}

\* the frame of a job that was handed to the worker and has not run yet
NewFrame ==
    [pc |-> "ep_connect", attempt |-> 0, participant |-> Unbound, model |-> Unbound,
     chat_ctx |-> Unbound, agent |-> Unbound, exc |-> NoExc, calls |-> <<>>,
     logs |-> <<>>, configs |-> <<>>]

\* the frame of the running job
RunningFrame ==
    [pc |-> pc, attempt |-> attempt, participant |-> participant, model |-> model,
     chat_ctx |-> chat_ctx, agent |-> agent, exc |-> exc, calls |-> calls,
     logs |-> logs, configs |-> configs]

\* a name that is a module-level variable: the resumed coroutine finds what the
\* last writer left
RestoreShared(saved, live) == live

\* a name that is a parameter or a local of the coroutine: the resumed coroutine
\* finds its own value
RestoreLocal(saved, live) == saved

\* the event loop suspends the running coroutine and resumes the one of job j
Switch(j) ==
    /\ pc \in YieldedPcs
    /\ j # current
    /\ parked[j].pc \notin {"done", "failed", "cancelled"}
    /\ parked' = [parked EXCEPT ![current] = RunningFrame, ![j] = IdleFrame]
    /\ current' = j
    /\ pc' = parked[j].pc
    /\ exc' = parked[j].exc
    /\ calls' = parked[j].calls
    /\ logs' = parked[j].logs
    /\ configs' = parked[j].configs
    /\ attempt' = RestoreLocal(parked[j].attempt, attempt)
    /\ participant' = RestoreLocal(parked[j].participant, participant)
    /\ model' = RestoreLocal(parked[j].model, model)
    /\ chat_ctx' = RestoreLocal(parked[j].chat_ctx, chat_ctx)
    /\ agent' = RestoreLocal(parked[j].agent, agent)
    /\ UNCHANGED <<env, envIdx, ctorPlan>>

SwitchJob == \E j \in Jobs : Switch(j)

\* the worker has passed the import-time check; job 1 is the first to run and the
\* other jobs are waiting for the event loop
InitJobs ==
    /\ env \in [RequiredNames -> {"secret"}]
    /\ envIdx = 1
    /\ ctorPlan \in [1..PlanLen -> BOOLEAN]
    /\ pc = "env_check"
    /\ attempt = 0
    /\ participant = Unbound
    /\ model = Unbound
    /\ chat_ctx = Unbound
    /\ agent = Unbound
    /\ exc = NoExc
    /\ calls = <<>>
    /\ logs = <<>>
    /\ configs = <<>>
    /\ current = 1
    /\ parked = [j \in Jobs |-> IF j = 1 THEN IdleFrame ELSE NewFrame]

NextJobs == Next \/ SwitchJob

JobsSpec == InitJobs /\ [][NextJobs]_vars

-----------------------------------------------------------------------------
(* Vocabulary of the properties *)

\* the number of records logged at one level
LogCount(level) == Cardinality({i \in 1..Len(logs) : logs[i].level = level})

Warnings == LogCount("WARNING")
Errors == LogCount("ERROR")

\* the calls of one operation that ended with the given status
CallsWith(op, status) == {i \in CallsOf(op) : calls[i].status = status}

\* the constructor raises on exactly its first k calls and then returns
FailsThenSucceeds(k) == (\A i \in 1..k : ctorPlan[i]) /\ ~ctorPlan[k + 1]

\* the constructor raises on every call
AlwaysFails == \A i \in 1..PlanLen : ctorPlan[i]

\* the required names that map to no non-empty value
MissingVars == {v \in RequiredNames : env[v] = NoValue \/ env[v] = ""}

\* the positions of the session launch and after it
LaunchPcs == {"rma_chat_ctx", "rma_agent", "rma_start", "rma_reply", "ep_return",
              "done"}

\* the exception handlers
HandlerPcs == {"rma_except", "ep_except"}

\* the calls that make up the session launch
LaunchOps == {"ChatContext", "append", "MultimodalAgent", "start", "generate_reply",
              "say"}

\* the job is over
Conversing == pc = "done"
Failed == pc = "failed"

-----------------------------------------------------------------------------
(* C1: when the constructor fails on exactly its first k calls and then     *)
(* succeeds (k in 0..2), the initializer never raises: it makes at most k+1 *)
(* constructor calls and logs at most k warnings, and at the moment it      *)
(* hands over to the launch it has made exactly k+1 calls, logged exactly k *)
(* warnings and no error, and holds the handle of call k+1.                 *)
C1_RetrySucceeds ==
    \A k \in 0..2 :
        FailsThenSucceeds(k) =>
            /\ CtorCalls <= k + 1
            /\ Warnings <= k
            /\ exc.origin \notin {"RealtimeModel", "model"}
            /\ pc = "await_sleep" => attempt < k
            /\ pc = "rma_chat_ctx" =>
                   /\ CtorCalls = k + 1
                   /\ Warnings = k
                   /\ Errors = 0
                   /\ exc = NoExc
                   /\ model = Bound(k + 1)
                   /\ calls[Len(calls)] = Call("RealtimeModel", <<k>>, "ok")

C1_Witness ==
    /\ FailsThenSucceeds(2)
    /\ pc = "rma_chat_ctx"
    /\ CtorCalls = 3
    /\ Warnings = 2

(* C2: when the constructor fails on every call, the error of the           *)
(* initializer is raised by the 3rd constructor call (attempt index 2) and  *)
(* by no other: never after 1 or 2 calls, and a 4th call is never made.     *)
C2_ExactlyThreeAttempts ==
    AlwaysFails =>
        /\ CtorCalls <= 3
        /\ model = Unbound
        /\ pc \notin LaunchPcs
        /\ exc.origin # "model"
        /\ exc.origin = "RealtimeModel" <=> CtorCalls = 3
        /\ exc.origin = "RealtimeModel" =>
               /\ exc.seq = Len(calls)
               /\ calls[exc.seq] = Call("RealtimeModel", <<2>>, "raised")
               /\ CallsWith("RealtimeModel", "raised") = CallsOf("RealtimeModel")

C2_Witness ==
    /\ AlwaysFails
    /\ Failed
    /\ exc.origin = "RealtimeModel"
    /\ CtorCalls = 3

(* C3: wait_for_participant is only invoked after a connect call that       *)
(* returned; the agent is only constructed and started after a              *)
(* wait_for_participant call that returned a participant and a constructor  *)
(* call that returned the model handle the agent is given.                  *)
C3_Ordering ==
    /\ \A i \in CallsOf("wait_for_participant") :
           \E j \in CallsWith("connect", "ok") : j < i
    /\ \A i \in CallsOf("MultimodalAgent") \cup CallsOf("start")
                   \cup CallsOf("generate_reply") :
           /\ \E j \in CallsWith("wait_for_participant", "ok") : j < i
           /\ \E j \in CallsWith("RealtimeModel", "ok") : j < i
           /\ participant # Unbound
           /\ model # Unbound
    /\ agent # Unbound =>
           /\ model = Bound(ValueOf(agent).model)
           /\ ValueOf(agent).model = Cardinality(CallsOf("RealtimeModel"))
    /\ \A i \in CallsOf("start") :
           /\ calls[i].arg = <<RoomName, ValueOf(participant)>>
           /\ \E j \in CallsOf("MultimodalAgent") : j < i

C3_Witness ==
    /\ CallsWith("start", "ok") # {}
    /\ CallsWith("RealtimeModel", "raised") # {}

(* C4: once three constructor calls have failed, the job is unwinding with  *)
(* the error of the constructor or has ended Failed with it, and nothing of *)
(* the launch has happened: no chat context, no agent, no start, no         *)
(* generate_reply.                                                          *)
C4_ExhaustedNeverLaunches ==
    Cardinality(CallsWith("RealtimeModel", "raised")) >= 3 =>
        /\ pc \in HandlerPcs \cup {"failed"}
        /\ exc.origin = "RealtimeModel"
        /\ \A i \in 1..Len(calls) : calls[i].op \notin LaunchOps
        /\ chat_ctx = Unbound
        /\ agent = Unbound
        /\ model = Unbound

C4_Witness ==
    /\ Cardinality(CallsWith("RealtimeModel", "raised")) = 3
    /\ Failed
    /\ Errors = 2

(* C5: when some required variable is missing, no collaborator is ever      *)
(* called and the import-time check ends by raising an error that names a   *)
(* variable that is missing; when none is missing the check raises nothing. *)
C5_MissingVariableIsFatal ==
    /\ MissingVars # {} =>
           /\ calls = <<>>
           /\ pc \in {"env_check", "import_failed"}
           /\ pc = "import_failed" =>
                  /\ exc.type = "EnvironmentError"
                  /\ exc.origin \in MissingVars
    /\ MissingVars = {} =>
           /\ pc # "import_failed"
           /\ exc.type # "EnvironmentError"
           /\ envIdx > Len(required_env_vars) => pc # "env_check"

C5_Witness ==
    /\ Cardinality(MissingVars) = 2
    /\ env["OPENAI_API_KEY"] = "secret"
    /\ pc = "import_failed"

(* C6: when the job has ended Conversing, exactly one turn starter has run: *)
(* the scripted send (say) and generate_reply have together been invoked    *)
(* exactly once, that call returned, and it came after agent.start.         *)
TurnStarterCalls == CallsOf("say") \cup CallsOf("generate_reply")

C6_ExactlyOneTurnStarter ==
    Conversing =>
        /\ Cardinality(TurnStarterCalls) = 1
        /\ \A i \in TurnStarterCalls :
               /\ calls[i].status = "ok"
               /\ \E j \in CallsWith("start", "ok") : j < i

C6_Witness ==
    /\ Conversing
    /\ CallsWith("generate_reply", "ok") # {}

\* the scenario of C7: every required variable set, connect returned,
\* wait_for_participant returned "user-42", the constructor fails once and then
\* succeeds, and neither agent.start nor the turn starter raised
EndToEndScenario ==
    /\ MissingVars = {}
    /\ CallsWith("connect", "ok") # {}
    /\ participant = Bound("user-42")
    /\ FailsThenSucceeds(1)
    /\ CallsWith("start", "raised") = {}
    /\ CallsWith("generate_reply", "raised") = {}
    /\ CallsWith("say", "raised") = {}

\* the scripted greeting ("Hola, en que puedo ayudarte hoy?" with its Spanish
\* punctuation) and allow_interruptions=True
ScriptedGreeting == <<"Hola, en que puedo ayudarte hoy?", TRUE>>

(* C7 as stated: in the scenario the job ends Conversing with 1 warning and *)
(* no error logged, and the scripted send has been invoked exactly once     *)
(* with the literal greeting and allow_interruptions=True.                  *)
C7_ScriptedSendOnce ==
    (EndToEndScenario /\ (Conversing \/ Failed)) =>
        /\ Conversing
        /\ Warnings = 1
        /\ Errors = 0
        /\ Cardinality(CallsOf("say")) = 1
        /\ \A i \in CallsOf("say") : calls[i].arg = ScriptedGreeting

(* C7 amended: in the scenario the job ends Conversing with 1 warning and   *)
(* no error logged, the scripted send is never invoked, and generate_reply  *)
(* has been invoked exactly once, with no text, after agent.start was       *)
(* called on the room and participant "user-42" with the handle of the 2nd  *)
(* constructor call.                                                        *)
C7_GeneratedReplyOnce ==
    (EndToEndScenario /\ (Conversing \/ Failed)) =>
        /\ Conversing
        /\ Warnings = 1
        /\ Errors = 0
        /\ exc = NoExc
        /\ CallsOf("say") = {}
        /\ Cardinality(CallsOf("generate_reply")) = 1
        /\ \A i \in CallsOf("generate_reply") :
               /\ calls[i] = Call("generate_reply", <<>>, "ok")
               /\ calls[i - 1] = Call("start", <<RoomName, "user-42">>, "ok")
        /\ ValueOf(agent).model = 2
        /\ ValueOf(agent).chat_ctx = <<SeedMessage>>

C7_Witness ==
    /\ EndToEndScenario
    /\ Conversing
    /\ Warnings = 1

\* the stages of a job, in the order of the pipeline; the handlers that unwind a
\* failure come between the stages that can fail and the outcome
StageOf(p) ==
    CASE p \in {"ep_connect", "await_connect"} -> "Connecting"
      [] p \in {"ep_wait", "await_participant", "ep_run"} -> "AwaitingParticipant"
      [] p \in {"rma_construct", "await_sleep"} -> "InitializingModel"
      [] p \in {"rma_chat_ctx", "rma_agent", "rma_start", "rma_reply", "ep_return"}
            -> "LaunchingSession"
      [] p \in {"rma_except", "ep_except"} -> "Unwinding"
      [] p = "done" -> "Conversing"
      [] p = "failed" -> "Failed"
      [] OTHER -> "NoJob"

StageOrder == <<"NoJob", "Connecting", "AwaitingParticipant", "InitializingModel",
                "LaunchingSession", "Unwinding", "Conversing", "Failed">>

StageRank(p) == CHOOSE i \in 1..Len(StageOrder) : StageOrder[i] = StageOf(p)

(* C8: no step of a job returns to an earlier stage; a step that stays in   *)
(* its stage and repeats a position is a retry inside InitializingModel     *)
(* (from the backoff wait to constructor attempt 2 or 3); no step is taken  *)
(* from Conversing or from Failed.                                          *)
C8_StagesMonotone ==
    [][ /\ StageRank(pc') >= StageRank(pc)
        /\ StageOf(pc) \notin {"Conversing", "Failed"}
        /\ StageOf(pc') = "Conversing" => StageOf(pc) = "LaunchingSession"
        /\ (pc' = "rma_construct" /\ StageOf(pc) = "InitializingModel") =>
               /\ pc = "await_sleep"
               /\ attempt' = attempt + 1
               /\ attempt' + 1 \in 2..3
               /\ CtorCalls = attempt'
      ]_vars

C8_Witness ==
    /\ pc = "rma_construct"
    /\ attempt = 2
    /\ CtorCalls = 2

(* C9: connect and wait_for_participant are each invoked at most once, and  *)
(* once either has raised, it is the last call the job ever makes, no       *)
(* constructor call, agent.start or generate_reply is made, and the job is  *)
(* unwinding in entrypoint's handler or has ended Failed with that error.   *)
C9_ConnectorFailureAborts ==
    /\ Cardinality(CallsOf("connect")) <= 1
    /\ Cardinality(CallsOf("wait_for_participant")) <= 1
    /\ \A i \in CallsWith("connect", "raised")
                   \cup CallsWith("wait_for_participant", "raised") :
           /\ i = Len(calls)
           /\ pc \in {"ep_except", "failed"}
           /\ exc = [type |-> "Exception", origin |-> calls[i].op, seq |-> i]
           /\ CallsOf("RealtimeModel") = {}
           /\ CallsOf("start") = {}
           /\ CallsOf("generate_reply") = {}
           /\ model = Unbound /\ agent = Unbound
           /\ Failed => Errors = 1

C9_Witness ==
    /\ CallsWith("wait_for_participant", "raised") # {}
    /\ CallsWith("connect", "ok") # {}
    /\ Failed

(* C10: agent.start is invoked at most once, and once it has raised it is   *)
(* the last call the job ever makes: generate_reply is never invoked, and   *)
(* the job is unwinding through the handlers or has ended Failed with the   *)
(* error of start.                                                          *)
C10_StartNeverRetried ==
    /\ Cardinality(CallsOf("start")) <= 1
    /\ \A i \in CallsWith("start", "raised") :
           /\ i = Len(calls)
           /\ CallsOf("generate_reply") = {}
           /\ pc \in HandlerPcs \cup {"failed"}
           /\ exc = [type |-> "Exception", origin |-> "start", seq |-> i]

C10_Witness ==
    /\ CallsWith("start", "raised") # {}
    /\ Failed
    /\ exc.origin = "start"

\* the frame of job j, running or not
FrameOf(j) == IF j = current THEN RunningFrame ELSE parked[j]

\* the calls of one operation in the trace of a frame
FrameCalls(f, op) == {i \in 1..Len(f.calls) : f.calls[i].op = op}

(* C11: with several jobs interleaved, every job constructs at most one     *)
(* agent and starts at most one; the model handle a job holds and gives to  *)
(* its agent was returned by a constructor call of that job, the chat       *)
(* context of its agent is the one that job built, agent.start is called    *)
(* on the job's own room with the participant its own wait_for_participant  *)
(* returned, and no two jobs hold the same handle.                          *)
C11_JobsShareNothing ==
    /\ \A j \in Jobs :
         LET f == FrameOf(j) IN
           /\ Cardinality(FrameCalls(f, "MultimodalAgent")) <= 1
           /\ Cardinality(FrameCalls(f, "start")) <= 1
           /\ f.model # Unbound =>
                  /\ MakerOf(ValueOf(f.model)) = j
                  /\ \E i \in FrameCalls(f, "RealtimeModel") :
                         f.calls[i].status = "ok"
           /\ f.agent # Unbound =>
                  /\ ValueOf(f.agent).model = ValueOf(f.model)
                  /\ ValueOf(f.agent).chat_ctx = ValueOf(f.chat_ctx)
                  /\ FrameCalls(f, "ChatContext") # {}
           /\ \A i \in FrameCalls(f, "MultimodalAgent") :
                  MakerOf(f.calls[i].arg[1]) = j
           /\ \A i \in FrameCalls(f, "start") :
                  /\ f.calls[i].arg[1] = RoomOf(j)
                  /\ \E k \in FrameCalls(f, "wait_for_participant") :
                         /\ k < i
                         /\ f.calls[k].ret = <<f.calls[i].arg[2]>>
    /\ \A j1, j2 \in Jobs :
         (j1 # j2 /\ FrameOf(j1).model # Unbound /\ FrameOf(j2).model # Unbound)
             => FrameOf(j1).model # FrameOf(j2).model

C11_Witness ==
    /\ current = 2
    /\ pc = "done"
    /\ parked[1].pc = "await_sleep"
    /\ parked[1].participant = Bound("user-42")
    /\ participant = Bound("user-7")
    /\ Len(configs) = 2

\* the calls whose error is a stage's error: a raised connect,
\* wait_for_participant, start or generate_reply, and the raised constructor call
\* of the last attempt
StageErrors ==
    {i \in 1..Len(calls) :
        /\ calls[i].status = "raised"
        /\ calls[i].op = "RealtimeModel" => calls[i].arg = <<2>>}

(* C12: once a stage has raised, the job is in an except handler or has     *)
(* ended Failed, carrying that stage's error; a job that ended Failed       *)
(* logged "Error in entrypoint" at error level as its last record and the   *)
(* error left entrypoint; a job that ended Conversing had no stage error.   *)
C12_ErrorsLoggedAndReraised ==
    /\ \A i \in StageErrors :
           /\ pc \in HandlerPcs \cup {"failed"}
           /\ exc = [type |-> "Exception", origin |-> calls[i].op, seq |-> i]
    /\ pc = "ep_except" => StageErrors # {}
    /\ Failed =>
           /\ StageErrors # {}
           /\ logs[Len(logs)] = Log("ERROR", "Error in entrypoint")
    /\ Conversing =>
           /\ StageErrors = {}
           /\ exc = NoExc
           /\ Errors = 0

C12_Witness ==
    /\ Failed
    /\ exc.origin = "generate_reply"
    /\ Errors = 2

(* C13: every backoff wait is asyncio.sleep(1) and directly follows a      *)
(* failed constructor call of attempt 0 or 1; between two consecutive       *)
(* constructor calls lies exactly that one wait and nothing else; no wait   *)
(* follows a constructor call that returned or the failed call of attempt   *)
(* 2; the waits number as many as the warnings, and at most 2.              *)
C13_FixedBackoffBetweenAttempts ==
    /\ \A i \in CallsOf("sleep") :
           /\ calls[i].arg = <<1>>
           /\ i > 1
           /\ calls[i - 1].op = "RealtimeModel"
           /\ calls[i - 1].status = "raised"
           /\ calls[i - 1].arg[1] \in {0, 1}
    /\ \A i, j \in CallsOf("RealtimeModel") :
           (i < j /\ ~\E m \in CallsOf("RealtimeModel") : i < m /\ m < j) =>
               /\ j = i + 2
               /\ calls[i + 1].op = "sleep"
               /\ calls[i + 1].status = "ok"
               /\ calls[j].arg[1] = calls[i].arg[1] + 1
    /\ \A i \in CallsOf("RealtimeModel") :
           (calls[i].status = "ok" \/ calls[i].arg = <<2>>) =>
               \A m \in CallsOf("sleep") : m < i
    /\ Cardinality(CallsOf("sleep")) = Warnings
    /\ Warnings <= 2

C13_Witness ==
    /\ Cardinality(CallsOf("sleep")) = 2
    /\ Cardinality(CallsWith("RealtimeModel", "raised")) = 3
    /\ Warnings = 2

\* the calls the framework cancelled
CancelledCalls == {i \in 1..Len(calls) : calls[i].status = "cancelled"}

(* C14: once the job has been cancelled in an await (connect,               *)
(* wait_for_participant or the backoff sleep), the cancelled call is the    *)
(* last call it ever makes: no constructor call, agent construction or      *)
(* start follows; the job has left entrypoint with the CancelledError, no   *)
(* agent exists, and no warning or error was logged for the cancellation:   *)
(* the warnings still number as many as the failed constructor calls that   *)
(* were retried.                                                            *)
C14_CancelUnwinds ==
    /\ Cardinality(CancelledCalls) <= 1
    /\ \A i \in CancelledCalls :
           /\ i = Len(calls)
           /\ calls[i].op \in {"connect", "wait_for_participant", "sleep"}
           /\ pc = "cancelled"
           /\ exc = [type |-> "CancelledError", origin |-> calls[i].op, seq |-> i]
           /\ agent = Unbound
           /\ model = Unbound
           /\ CallsOf("MultimodalAgent") = {}
           /\ CallsOf("start") = {}
           /\ Errors = 0
           /\ Warnings = Cardinality(CallsOf("sleep"))
           /\ Warnings = Cardinality(CallsWith("RealtimeModel", "raised"))
           /\ Len(configs) = Cardinality(CallsOf("RealtimeModel"))
    /\ pc = "cancelled" => CancelledCalls # {}

C14_Witness ==
    /\ pc = "cancelled"
    /\ calls[Len(calls)].op = "sleep"
    /\ Cardinality(CallsOf("RealtimeModel")) = 2

\* the error a raised call raised, as the except clause binds it
ErrorOf(i) == [type |-> "Exception", origin |-> calls[i].op, seq |-> i]

(* C15: the error of a failed constructor call of attempt 0 or 1 is never   *)
(* the error in flight: it is only logged as a warning.  When the call of   *)
(* attempt 2 fails, the error in flight in both handlers and at the end is  *)
(* that call's own error, unchanged, and that call is the last call made.   *)
C15_LastErrorReraisedUnchanged ==
    /\ \A i \in CallsWith("RealtimeModel", "raised") :
           IF calls[i].arg = <<2>>
           THEN /\ exc = ErrorOf(i)
                /\ i = Len(calls)
                /\ pc \in HandlerPcs \cup {"failed"}
                /\ Warnings = 2
           ELSE /\ exc # ErrorOf(i)
                /\ exc.seq # i
                /\ Warnings >= calls[i].arg[1] + 1
    /\ exc.origin = "RealtimeModel" =>
           /\ exc.seq \in CallsWith("RealtimeModel", "raised")
           /\ calls[exc.seq].arg = <<2>>
    /\ exc.type \in {"none", "Exception", "EnvironmentError"}

C15_Witness ==
    /\ Failed
    /\ exc.origin = "RealtimeModel"
    /\ exc.seq = Len(calls)
    /\ Warnings = 2

(* C16: every constructor call of a job is given the same configuration,    *)
(* the literal one, whatever the attempt and whatever failed before; there  *)
(* is one configuration per constructor call; at most one constructor call  *)
(* returns, it is the last one, and the handle the agent is built on is the *)
(* one that call returned.                                                  *)
C16_SameConfigEveryAttempt ==
    /\ Len(configs) = Cardinality(CallsOf("RealtimeModel"))
    /\ \A n \in 1..Len(configs) :
           /\ configs[n] = ModelConfig
           /\ configs[n] = configs[1]
    /\ Cardinality(CallsWith("RealtimeModel", "ok")) <= 1
    /\ \A i \in CallsWith("RealtimeModel", "ok") :
           /\ \A m \in CallsOf("RealtimeModel") : m <= i
           /\ model = Bound(Cardinality(CallsOf("RealtimeModel")))
    /\ model # Unbound => CallsWith("RealtimeModel", "ok") # {}
    /\ \A i \in CallsOf("MultimodalAgent") :
           /\ calls[i].arg = <<ValueOf(model)>>
           /\ ValueOf(agent).model = ValueOf(model)

C16_Witness ==
    /\ Len(configs) = 3
    /\ CallsOf("MultimodalAgent") # {}
    /\ ValueOf(agent).model = 3

\* the event loop runs the job's coroutine whenever it can take a step, and every
\* awaited call resolves: some step is taken as long as one is possible
FairSpec == Spec /\ WF_vars(Next)

(* C17: under that assumption every job, once handed to the worker, ends    *)
(* Conversing or Failed; a job that has ended stays as it ended; no job     *)
(* makes more than 3 constructor calls; and no constructor call is made     *)
(* unless wait_for_participant has returned a participant.                  *)
C17_EveryJobEnds ==
    /\ (pc = "ep_connect") ~> (Conversing \/ Failed)
    /\ [][(Conversing \/ Failed) => pc' = pc]_vars
    /\ [](CtorCalls <= 3)
    /\ [](CtorCalls > 0 =>
            /\ CallsWith("wait_for_participant", "ok") # {}
            /\ participant # Unbound)
    /\ []((pc = "await_participant") => (CtorCalls = 0 /\ model = Unbound))

C17_Witness ==
    /\ Conversing
    /\ CtorCalls = 3

\* the order in which the check is to look at the required variables
FixedOrder == <<"OPENAI_API_KEY", "LIVEKIT_API_KEY", "LIVEKIT_API_SECRET">>

\* the places in that order of the variables that are unset or empty
MissingPlaces ==
    {i \in 1..Len(FixedOrder) :
        env[FixedOrder[i]] = NoValue \/ env[FixedOrder[i]] = ""}

FirstMissing == CHOOSE i \in MissingPlaces : \A m \in MissingPlaces : i <= m

(* C18: when some required variable is unset or empty, the check stops at   *)
(* the first such variable in the order OPENAI_API_KEY, LIVEKIT_API_KEY,    *)
(* LIVEKIT_API_SECRET and raises an error naming it, having looked at each  *)
(* earlier variable once; after the error nothing runs again.               *)
C18_FirstMissingNamed ==
    /\ MissingPlaces # {} =>
           /\ envIdx <= FirstMissing
           /\ pc \in {"env_check", "import_failed"}
           /\ pc = "import_failed" =>
                  /\ envIdx = FirstMissing
                  /\ exc = [type |-> "EnvironmentError",
                            origin |-> FixedOrder[FirstMissing], seq |-> 0]
                  /\ ~ENABLED Next
    /\ pc = "env_check" => envIdx \in 1..Len(FixedOrder)
    /\ pc \notin {"env_check", "import_failed"} =>
           /\ envIdx = Len(FixedOrder) + 1
           /\ MissingPlaces = {}

C18_Witness ==
    /\ env["OPENAI_API_KEY"] = "secret"
    /\ env["LIVEKIT_API_KEY"] = ""
    /\ env["LIVEKIT_API_SECRET"] = NoValue
    /\ pc = "import_failed"
    /\ exc.origin = "LIVEKIT_API_KEY"

(* C19: the chat context receives exactly one append, of the seed message   *)
(* with role assistant, and that append comes before the agent is           *)
(* constructed and before agent.start; from the construction of the agent   *)
(* on, the chat context is the one seed message and the agent holds it; and *)
(* generate_reply is only invoked after agent.start has returned.           *)
C19_SeedThenReadOnly ==
    /\ Cardinality(CallsOf("append")) <= 1
    /\ Cardinality(CallsOf("ChatContext")) <= 1
    /\ \A i \in CallsOf("append") :
           /\ calls[i].arg = <<SeedMessage>>
           /\ calls[i].arg[1].role = "assistant"
           /\ \E c \in CallsOf("ChatContext") : c < i
           /\ chat_ctx = Bound(<<calls[i].arg[1]>>)
    /\ \A i \in CallsOf("MultimodalAgent") \cup CallsOf("start") :
           /\ \E a \in CallsOf("append") : a < i
           /\ \A a \in CallsOf("append") : a < i
           /\ Len(ValueOf(chat_ctx)) = 1
           /\ ValueOf(chat_ctx)[1].role = "assistant"
           /\ ValueOf(agent).chat_ctx = ValueOf(chat_ctx)
    /\ \A i \in CallsOf("generate_reply") :
           \E st \in CallsWith("start", "ok") : st < i
    /\ chat_ctx = Unbound => CallsOf("append") = {}

C19_Witness ==
    /\ CallsWith("generate_reply", "ok") # {}
    /\ CallsOf("append") # {}
    /\ Conversing

\* the records logged at error level, in order
IsErrorRecord(r) == r.level = "ERROR"
ErrorRecords == SelectSeq(logs, IsErrorRecord)

\* the success record of entrypoint
SuccessRecord == Log("INFO", "Agent started successfully")

(* C20: "Agent started successfully" is in the log exactly when the job has *)
(* ended Conversing, and then connect, wait_for_participant, a constructor  *)
(* call, agent.start and generate_reply have all returned; a job that ended *)
(* Failed on an error raised inside run_multimodal_agent logged exactly two *)
(* error records, first run_multimodal_agent's and then entrypoint's; one   *)
(* that ended Failed on connect or wait_for_participant logged exactly one, *)
(* entrypoint's.                                                            *)
C20_LogsTellOutcome ==
    /\ (\E i \in 1..Len(logs) : logs[i] = SuccessRecord) <=> Conversing
    /\ Conversing =>
           /\ logs[Len(logs)] = SuccessRecord
           /\ \A op \in {"connect", "wait_for_participant", "RealtimeModel", "start",
                         "generate_reply"} :
                  Cardinality(CallsWith(op, "ok")) = 1
           /\ \A i \in 1..Len(calls) :
                  calls[i].status = "raised" => calls[i].op = "RealtimeModel"
           /\ ErrorRecords = <<>>
    /\ (Failed /\ exc.origin \in {"RealtimeModel", "start", "generate_reply"}) =>
           ErrorRecords = <<Log("ERROR", "Failed to initialize MultimodalAgent"),
                            Log("ERROR", "Error in entrypoint")>>
    /\ (Failed /\ exc.origin \in {"connect", "wait_for_participant"}) =>
           ErrorRecords = <<Log("ERROR", "Error in entrypoint")>>
    /\ Failed => exc.origin \in {"connect", "wait_for_participant", "RealtimeModel",
                                 "start", "generate_reply"}

C20_Witness ==
    /\ Failed
    /\ exc.origin = "start"
    /\ Len(ErrorRecords) = 2

====
